---------------------------- MODULE Spec2Model ----------------------------
(***************************************************************************)
(* Model of tools/modify_flat_prof.py: the folded-stack flat profiler.     *)
(*                                                                         *)
(* A str is modelled as the sequence of its code points ("a;b 1" is         *)
(* <<97, 59, 98, 32, 49>>), so that str.strip, str.rsplit, int() and       *)
(* str.split are computed character by character, for every character of   *)
(* Unicode.  Python's None is the empty tuple <<>> and a present           *)
(* optional value x is <<x>>.  A Python float is an IEEE 754 double,       *)
(* computed bit by bit with the rounding of every operation.  A dict is    *)
(* the sequence of its <<key, value>> items in insertion order.            *)
(***************************************************************************)
EXTENDS Integers, Sequences, FiniteSets, TLC

VARIABLES
    entry,          \* which function of the module the caller entered
    pc,             \* position inside that function
    line,           \* parse_folded_line: its argument
    parsed,         \* parse_folded_line: its outcome
    lines,          \* accumulate: lines still to consume / main: lines last read
    consumed,       \* accumulate: what each consumed line was written from
    self_counts,    \* accumulate: local dict
    total_counts,   \* accumulate: local dict
    total_samples,  \* accumulate: local int
    args,           \* main: the parsed command line
    t_acc,          \* main: (t_self, t_total, t_sum)
    t_rows,         \* main: t_rows / combine_inst_cycle: inst_rows
    t_meta,         \* main: t_meta / combine_inst_cycle: inst_meta
    s_acc,          \* main: (s_self, s_total, s_sum)
    s_rows,         \* main: s_rows / combine_inst_cycle: cyc_rows / filter_rows: out
    s_meta,         \* main: s_meta / combine_inst_cycle: cyc_meta
    combined,       \* the table combine_inst_cycle returned
    meta,           \* the summary combine_inst_cycle returned
    calls,          \* main: the calls made so far, in order
    output          \* main: what was printed or written so far

vars == <<entry, pc, line, parsed, lines, consumed, self_counts, total_counts,
          total_samples, args, t_acc, t_rows, t_meta, s_acc, s_rows, s_meta,
          combined, meta, calls, output>>

(***************************************************************************)
(* Python values                                                           *)
(***************************************************************************)
None == <<>>

Some(x) == <<x>>

IsNone(o) == o = <<>>

TheValue(o) == o[1]

Max(a, b) == IF a >= b THEN a ELSE b

Abs(n) == IF n < 0 THEN -n ELSE n

(***************************************************************************)
(* float: IEEE 754 binary64, round to nearest, ties to even                *)
(*                                                                         *)
(* A finite double is [sign, bits, exp]: its value is                      *)
(* sign * (the binary number bits, first bit most significant) * 2^exp.    *)
(* The form is unique: bits starts and ends with 1 and has at most 53      *)
(* bits; 0.0 is [sign |-> 0, bits |-> <<>>, exp |-> 0].  Exponent range    *)
(* (overflow, subnormals) and the sign of zero are not modelled.           *)
(***************************************************************************)
MantissaBits == 53

LimbBits == 16

Zeros(n) == [i \in 1..n |-> 0]

\* the binary number with leading zeros up to n bits
PadLeft(bits, n) == Zeros(n - Len(bits)) \o bits

\* the bits without their leading zeros
DropLeadingZeros(bits) ==
    IF \A i \in 1..Len(bits) : bits[i] = 0 THEN <<>>
    ELSE LET first == CHOOSE i \in 1..Len(bits) :
                          bits[i] = 1 /\ \A k \in 1..(i - 1) : bits[k] = 0
         IN  SubSeq(bits, first, Len(bits))

\* the bits without their trailing zeros, for bits that have a 1
DropTrailingZeros(bits) ==
    LET last == CHOOSE i \in 1..Len(bits) :
                    bits[i] = 1 /\ \A k \in (i + 1)..Len(bits) : bits[k] = 0
    IN  SubSeq(bits, 1, last)

\* the double of value sign * bits * 2^exp, bits of at most 53 significant bits
Float(sign, bits, exp) ==
    LET b == DropLeadingZeros(bits)
    IN  IF b = <<>> \/ sign = 0 THEN [sign |-> 0, bits |-> <<>>, exp |-> 0]
        ELSE LET odd == DropTrailingZeros(b)
             IN  [sign |-> sign, bits |-> odd, exp |-> exp + (Len(b) - Len(odd))]

\* the binary digits of a natural number
RECURSIVE NatBits(_)
NatBits(n) == IF n = 0 THEN <<>> ELSE Append(NatBits(n \div 2), n % 2)

\* the number whose binary digits are cols[lo..hi], digits of any size
RECURSIVE ColumnsValue(_, _, _)
ColumnsValue(cols, lo, hi) ==
    IF hi < lo THEN 0 ELSE cols[hi] + 2 * ColumnsValue(cols, lo, hi - 1)

\* the binary digits of the number whose digits of any size are cols[1..hi],
\* plus carry: 16 columns at a time, from the least significant
RECURSIVE Carried(_, _, _)
Carried(cols, hi, carry) ==
    IF hi = 0 THEN NatBits(carry)
    ELSE LET lo == IF hi > LimbBits THEN hi - LimbBits + 1 ELSE 1
             v == ColumnsValue(cols, lo, hi) + carry
             w == 2 ^ (hi - lo + 1)
         IN  Carried(cols, lo - 1, v \div w) \o PadLeft(NatBits(v % w), hi - lo + 1)

\* a + b for two binary numbers of the same length n
BitsAddSame(a, b, n) == Carried([i \in 1..n |-> a[i] + b[i]], n, 0)

\* a + b for two binary numbers
BitsAdd(a, b) ==
    LET n == IF Len(a) >= Len(b) THEN Len(a) ELSE Len(b)
    IN  BitsAddSame(PadLeft(a, n), PadLeft(b, n), n)

\* a - b for two binary numbers of the same length n, a >= b:
\* a + (2^n - 1 - b) + 1 is 2^n + (a - b)
BitsSubSame(a, b, n) ==
    Tail(Carried([i \in 1..n |-> a[i] + (1 - b[i])], n, 1))

\* a < b for two binary numbers of the same length
BitsLess(a, b) ==
    /\ a # b
    /\ LET d == CHOOSE i \in 1..Len(a) :
                    a[i] # b[i] /\ \A k \in 1..(i - 1) : a[k] = b[k]
       IN  a[d] < b[d]

\* the number of pairs of 1s, one in a and one in b, that meet in column p
\* of the product a * b
Column(a, b, p) ==
    Cardinality({j \in 1..Len(b) :
        b[j] = 1 /\ (p + 1 - j) \in 1..Len(a) /\ a[p + 1 - j] = 1})

\* a * b for two binary numbers
BitsMul(a, b) ==
    IF a = <<>> \/ b = <<>> THEN <<>>
    ELSE Carried([p \in 1..(Len(a) + Len(b) - 1) |-> Column(a, b, p)],
                 Len(a) + Len(b) - 1, 0)

\* round a binary number with a leading 1 to 53 bits, ties to even
RoundedBits(bits) ==
    IF Len(bits) <= MantissaBits THEN bits
    ELSE LET keep == SubSeq(bits, 1, MantissaBits)
             half == bits[MantissaBits + 1] = 1
             more == \E i \in (MantissaBits + 2)..Len(bits) : bits[i] = 1
             up == half /\ (more \/ keep[MantissaBits] = 1)
         IN  IF up THEN BitsAdd(keep, <<1>>) ELSE keep

\* the double nearest to sign * bits * 2^exp, for bits of any length
Rounded(sign, bits, exp) ==
    LET b == DropLeadingZeros(bits)
    IN  IF Len(b) <= MantissaBits THEN Float(sign, b, exp)
        ELSE Float(sign, RoundedBits(b), exp + (Len(b) - MantissaBits))

\* float(n)
FloatOfInt(n) ==
    IF n < 0 THEN Float(-1, NatBits(-n), 0)
    ELSE IF n = 0 THEN Float(0, <<>>, 0)
    ELSE Float(1, NatBits(n), 0)

\* m rounds of the long division of r by d, r < d, k binary digits a round:
\* the number the k * m digits make and the remainder
RECURSIVE QuotRounds(_, _, _, _)
QuotRounds(r, d, k, m) ==
    IF m = 0 THEN [quot |-> 0, rem |-> r]
    ELSE LET rest == QuotRounds((r * 2 ^ k) % d, d, k, m - 1)
         IN  [quot |-> ((r * 2 ^ k) \div d) * 2 ^ (k * (m - 1)) + rest.quot,
              rem |-> rest.rem]

\* the binary digits of r / d after the point, r < d, until there are n of
\* them, 16 or so at a time; a last 1 stands for a remainder that is not 0
RECURSIVE QuotBits(_, _, _, _)
QuotBits(r, d, k, n) ==
    IF r = 0 THEN <<>>
    ELSE IF n <= 0 THEN <<1>>
    ELSE LET m == IF k >= LimbBits THEN 1 ELSE LimbBits \div k
             rounds == QuotRounds(r, d, k, m)
         IN  PadLeft(NatBits(rounds.quot), k * m)
                 \o QuotBits(rounds.rem, d, k, n - k * m)

\* float(a) / float(b) for two int, b # 0: the quotient to at least 54
\* significant binary digits and whether more follow, then rounded
FloatQuot(a, b) ==
    LET sign == IF a = 0 THEN 0 ELSE IF (a < 0) = (b < 0) THEN 1 ELSE -1
        n == Abs(a)
        d == Abs(b)
        width == Len(NatBits(d))
        k == IF width < 30 THEN 30 - width ELSE 1
        whole == NatBits(n \div d)
        part == QuotBits(n % d, d, k, MantissaBits + 1 + width)
    IN  Rounded(sign, whole \o part, -Len(part))

\* the two magnitudes as binary numbers of the same length and exponent
Aligned(x, y) ==
    LET e == IF x.exp <= y.exp THEN x.exp ELSE y.exp
        a == x.bits \o Zeros(x.exp - e)
        b == y.bits \o Zeros(y.exp - e)
        n == IF Len(a) >= Len(b) THEN Len(a) ELSE Len(b)
    IN  [a |-> PadLeft(a, n), b |-> PadLeft(b, n), exp |-> e, n |-> n]

\* x + y
FloatAdd(x, y) ==
    IF x.sign = 0 THEN y
    ELSE IF y.sign = 0 THEN x
    ELSE LET al == Aligned(x, y)
         IN  IF x.sign = y.sign
             THEN Rounded(x.sign, BitsAddSame(al.a, al.b, al.n), al.exp)
             ELSE IF BitsLess(al.a, al.b)
             THEN Rounded(y.sign, BitsSubSame(al.b, al.a, al.n), al.exp)
             ELSE Rounded(x.sign, BitsSubSame(al.a, al.b, al.n), al.exp)

\* x * y
FloatMul(x, y) ==
    IF x.sign = 0 \/ y.sign = 0 THEN Float(0, <<>>, 0)
    ELSE Rounded(x.sign * y.sign,
                 IF Len(x.bits) <= Len(y.bits) THEN BitsMul(y.bits, x.bits)
                 ELSE BitsMul(x.bits, y.bits),
                 x.exp + y.exp)

\* x < y
FloatLess(x, y) ==
    IF x.sign # y.sign THEN x.sign < y.sign
    ELSE IF x.sign = 0 THEN FALSE
    ELSE LET al == Aligned(x, y)
         IN  IF x.sign = 1 THEN BitsLess(al.a, al.b) ELSE BitsLess(al.b, al.a)

\* x <= y
FloatLeq(x, y) == x = y \/ FloatLess(x, y)

(***************************************************************************)
(* Text                                                                    *)
(***************************************************************************)
\* the characters str.strip() and str.rsplit(None) treat as whitespace, the
\* ones str.isspace() is true for: "\t", "\n", "\v", "\f", "\r", U+001C to
\* U+001F, " ", U+0085, U+00A0, U+1680, U+2000 to U+200A, U+2028, U+2029,
\* U+202F, U+205F and U+3000
IsSpace(c) ==
    \/ c \in {9, 10, 11, 12, 13, 28, 29, 30, 31, 32, 133, 160, 5760}
    \/ c \in 8192..8202
    \/ c \in {8232, 8233, 8239, 8287, 12288}

\* the digit zero of every run of ten decimal digits int() reads (the
\* characters of category Nd of Unicode 14.0, which Python 3.11 carries):
\* "0" to "9" at 48, the Arabic-Indic digits at 1632, and so on
DigitRuns ==
    {48, 1632, 1776, 1984, 2406, 2534, 2662, 2790, 2918, 3046, 3174,
      3302, 3430, 3558, 3664, 3792, 3872, 4160, 4240, 6112, 6160,
      6470, 6608, 6784, 6800, 6992, 7088, 7232, 7248, 42528, 43216,
      43264, 43472, 43504, 43600, 44016, 65296, 66720, 68912, 69734,
      69872, 69942, 70096, 70384, 70736, 70864, 71248, 71360, 71472,
      71904, 72016, 72784, 73040, 73120, 92768, 92864, 93008, 120782,
      120792, 120802, 120812, 120822, 123200, 123632, 125264, 130032}

DecimalDigits == UNION {r..(r + 9) : r \in DigitRuns}

IsDigit(c) == c \in DecimalDigits

DigitVal(c) == c - (CHOOSE r \in DigitRuns : c \in r..(r + 9))

\* s < t for two str values (code point order, a proper prefix first)
RECURSIVE StrLess(_, _)
StrLess(s, t) ==
    IF t = <<>> THEN FALSE
    ELSE IF s = <<>> THEN TRUE
    ELSE IF s[1] = t[1] THEN StrLess(Tail(s), Tail(t))
    ELSE s[1] < t[1]

\* s.strip()
RECURSIVE LStrip(_)
LStrip(s) == IF s # <<>> /\ IsSpace(s[1]) THEN LStrip(Tail(s)) ELSE s

RECURSIVE RStrip(_)
RStrip(s) ==
    IF s # <<>> /\ IsSpace(s[Len(s)]) THEN RStrip(SubSeq(s, 1, Len(s) - 1)) ELSE s

Strip(s) == RStrip(LStrip(s))

\* s.rsplit(None, 1) for a stripped, non-empty s: the tokens as a sequence
RSplit1(s) ==
    LET ws == {i \in 1..Len(s) : IsSpace(s[i])}
    IN  IF ws = {} THEN <<s>>
        ELSE LET k == CHOOSE i \in ws : \A j \in ws : j <= i
             IN  <<RStrip(SubSeq(s, 1, k)), SubSeq(s, k + 1, Len(s))>>

\* s.split(sep): every piece, the empty ones included
RECURSIVE Split(_, _)
Split(s, sep) ==
    LET at == {i \in 1..Len(s) : s[i] = sep}
    IN  IF at = {} THEN <<s>>
        ELSE LET k == CHOOSE i \in at : \A j \in at : i <= j
             IN  <<SubSeq(s, 1, k - 1)>> \o Split(SubSeq(s, k + 1, Len(s)), sep)

\* [f for f in pieces if f]
RECURSIVE NonEmpty(_)
NonEmpty(pieces) ==
    IF pieces = <<>> THEN <<>>
    ELSE IF pieces[1] = <<>> THEN NonEmpty(Tail(pieces))
    ELSE <<pieces[1]>> \o NonEmpty(Tail(pieces))

\* "+" or "-"
IsSign(c) == c \in {43, 45}

Unsigned(tok) == IF tok # <<>> /\ IsSign(tok[1]) THEN Tail(tok) ELSE tok

\* the most digits int() converts (sys.get_int_max_str_digits(), which the
\* program leaves at its default); with more it raises ValueError
MaxStrDigits == 4300

\* the decimal digits of ds, its underscores left out
DigitsOf(ds) == SelectSeq(ds, IsDigit)

\* int(tok) succeeds: an optional sign, then decimal digits, with single
\* underscores ("_" is 95) allowed between two digits, MaxStrDigits digits at
\* most
IsIntToken(tok) ==
    LET ds == Unsigned(tok)
    IN  /\ ds # <<>>
        /\ \A i \in 1..Len(ds) :
               \/ IsDigit(ds[i])
               \/ /\ ds[i] = 95
                  /\ 1 < i /\ i < Len(ds)
                  /\ IsDigit(ds[i - 1]) /\ IsDigit(ds[i + 1])
        /\ Len(DigitsOf(ds)) <= MaxStrDigits

\* the value of a sequence of decimal digits (a Python int has no width; the
\* counts of the model stay below 2^31)
RECURSIVE DigitsVal(_)
DigitsVal(ds) ==
    IF ds = <<>> THEN 0
    ELSE 10 * DigitsVal(SubSeq(ds, 1, Len(ds) - 1)) + DigitVal(ds[Len(ds)])

\* the value of the decimal digits of ds; its underscores and its leading
\* zeros count for nothing
DecimalVal(ds) ==
    LET digits == DigitsOf(ds)
        n == Len(digits)
        lead == CHOOSE k \in 0..n :
                    /\ \A i \in 1..k : DigitVal(digits[i]) = 0
                    /\ k < n => DigitVal(digits[k + 1]) # 0
    IN  DigitsVal(SubSeq(digits, lead + 1, n))

\* int(tok) for a token int() accepts ("-" is 45)
IntOf(tok) ==
    IF tok[1] = 45 THEN -DecimalVal(Unsigned(tok)) ELSE DecimalVal(Unsigned(tok))

(***************************************************************************)
(* parse_folded_line                                                       *)
(***************************************************************************)
Skipped == [kind |-> "None"]

BadLine(why, raw, token) ==
    [kind |-> "ValueError", why |-> why, line |-> raw, token |-> token]

Sample(frames, count) == [kind |-> "sample", frames |-> frames, count |-> count]

\* the frames are the pieces between the semicolons (";" is 59)
parse_folded_line(raw) ==
    LET s == Strip(raw)
    IN  IF s = <<>> THEN Skipped
        ELSE LET parts == RSplit1(s)
             IN  IF Len(parts) # 2 THEN BadLine("missing count", raw, <<>>)
                 ELSE IF ~IsIntToken(parts[2])
                      THEN BadLine("bad count", raw, parts[2])
                 ELSE LET frames == NonEmpty(Split(parts[1], 59))
                      IN  IF frames = <<>> THEN BadLine("no frames", raw, <<>>)
                          ELSE Sample(frames, IntOf(parts[2]))

(***************************************************************************)
(* dict and list helpers                                                   *)
(***************************************************************************)
\* k in d
DictHas(d, k) == \E i \in 1..Len(d) : d[i][1] = k

\* d[k] for a key of d
DictAt(d, k) == d[CHOOSE i \in 1..Len(d) : d[i][1] = k][2]

\* d.get(k, default)
DictGet(d, k, default) == IF DictHas(d, k) THEN DictAt(d, k) ELSE default

DictKeys(d) == {d[i][1] : i \in 1..Len(d)}

\* the same statement with d[k] = n in both branches
DictPut(d, k, n) ==
    IF DictHas(d, k)
    THEN [i \in 1..Len(d) |-> IF d[i][1] = k THEN <<k, n>> ELSE d[i]]
    ELSE Append(d, <<k, n>>)

\* if k in d: d[k] += n  else: d[k] = n
DictAdd(d, k, n) ==
    IF DictHas(d, k)
    THEN [i \in 1..Len(d) |-> IF d[i][1] = k THEN <<k, d[i][2] + n>> ELSE d[i]]
    ELSE Append(d, <<k, n>>)

\* sum(d.values())
RECURSIVE DictSum(_)
DictSum(d) == IF d = <<>> THEN 0 ELSE d[1][2] + DictSum(Tail(d))

\* seq[:n] for n >= 0
Prefix(seq, n) == SubSeq(seq, 1, IF n < Len(seq) THEN n ELSE Len(seq))

\* a set of str as a sorted list
RECURSIVE SortedStrs(_)
SortedStrs(S) ==
    IF S = {} THEN <<>>
    ELSE LET m == CHOOSE x \in S : \A y \in S : y = x \/ StrLess(x, y)
         IN  <<m>> \o SortedStrs(S \ {m})

(***************************************************************************)
(* accumulate                                                              *)
(***************************************************************************)
Counts(selfc, totalc, n) ==
    [kind |-> "counts", self_counts |-> selfc, total_counts |-> totalc,
     total_samples |-> n]

\* the same loop over the callers only: frames[:-1]
RECURSIVE AddFramesCallersOnly(_, _, _)
AddFramesCallersOnly(totalc, frames, count) ==
    IF Len(frames) <= 1 THEN totalc
    ELSE AddFramesCallersOnly(DictAdd(totalc, frames[1], count), Tail(frames), count)

\* the same loop with each symbol of a stack counted once
RECURSIVE AddFramesOnce(_, _, _)
AddFramesOnce(totalc, frames, count) ==
    IF frames = <<>> THEN totalc
    ELSE AddFramesOnce(
             IF \E i \in 2..Len(frames) : frames[i] = frames[1]
             THEN totalc ELSE DictAdd(totalc, frames[1], count),
             Tail(frames), count)

\* for frame in frames: total_counts[frame] += count
RECURSIVE AddFrames(_, _, _)
AddFrames(totalc, frames, count) ==
    IF frames = <<>> THEN totalc
    ELSE AddFrames(DictAdd(totalc, frames[1], count), Tail(frames), count)

\* the same iteration with the count added to the self count of every frame
AccLineSelfEveryFrame(acc, raw) ==
    LET p == parse_folded_line(raw)
    IN  IF p.kind = "None" THEN acc
        ELSE IF p.kind = "ValueError" THEN p
        ELSE Counts(AddFrames(acc.self_counts, p.frames, p.count),
                    AddFrames(acc.total_counts, p.frames, p.count),
                    acc.total_samples + p.count)

\* the same iteration with a bad line skipped like a blank one
AccLineSkipBad(acc, raw) ==
    LET p == parse_folded_line(raw)
    IN  IF p.kind = "None" \/ p.kind = "ValueError" THEN acc
        ELSE Counts(DictAdd(acc.self_counts, p.frames[Len(p.frames)], p.count),
                    AddFrames(acc.total_counts, p.frames, p.count),
                    acc.total_samples + p.count)

\* one iteration of the loop of accumulate on the counts so far
AccLine(acc, raw) ==
    LET p == parse_folded_line(raw)
    IN  IF p.kind = "None" THEN acc
        ELSE IF p.kind = "ValueError" THEN p
        ELSE Counts(DictAdd(acc.self_counts, p.frames[Len(p.frames)], p.count),
                    AddFrames(acc.total_counts, p.frames, p.count),
                    acc.total_samples + p.count)

\* accumulate(lines): the counts, or the ValueError of the first bad line
RECURSIVE AccFrom(_, _)
AccFrom(acc, ls) ==
    IF ls = <<>> THEN acc
    ELSE LET next == AccLine(acc, ls[1])
         IN  IF next.kind = "ValueError" THEN next ELSE AccFrom(next, Tail(ls))

accumulate(ls) == AccFrom(Counts(<<>>, <<>>, 0), ls)

(***************************************************************************)
(* build_flat, filter_rows                                                 *)
(***************************************************************************)
FlatRow(sym, selfc, totalc, pct, cum, self_s, total_s) ==
    [symbol |-> sym, self_count |-> selfc, total_count |-> totalc,
     percent |-> pct, cum_percent |-> cum, self_time |-> self_s,
     total_time |-> total_s]

NoSamples == [kind |-> "ValueError", why |-> "no samples"]

\* the same key without the symbol: (-t[1],)
FlatLessBySelf(a, b) == a[2] > b[2]

\* key=lambda t: (-t[1], t[0])
FlatLess(a, b) == a[2] > b[2] \/ (a[2] = b[2] /\ StrLess(a[1], b[1]))

\* rows.sort(key=...): a stable sort, each tuple put after those not greater
RECURSIVE InsertFlat(_, _)
InsertFlat(x, sorted) ==
    IF sorted = <<>> THEN <<x>>
    ELSE IF FlatLess(x, sorted[1]) THEN <<x>> \o sorted
    ELSE <<sorted[1]>> \o InsertFlat(x, Tail(sorted))

RECURSIVE SortedFlat(_)
SortedFlat(seq) ==
    IF seq = <<>> THEN <<>>
    ELSE InsertFlat(seq[Len(seq)], SortedFlat(SubSeq(seq, 1, Len(seq) - 1)))

\* the same loop over the items of total_counts
FlatTuplesOfTotals(selfc, totalc) ==
    SortedFlat([i \in 1..Len(totalc) |->
                   <<totalc[i][1], DictGet(selfc, totalc[i][1], 0), totalc[i][2]>>])

\* the (sym, self_c, total_c) tuples of build_flat, sorted
FlatTuples(selfc, totalc) ==
    SortedFlat([i \in 1..Len(selfc) |->
                   <<selfc[i][1], selfc[i][2], DictGet(totalc, selfc[i][1], 0)>>])

\* clk_mhz is not None and clk_mhz > 0.0
UseTime(clk_mhz) == ~IsNone(clk_mhz) /\ TheValue(clk_mhz) > 0

\* clk_mhz * 1e6
Denom(clk_mhz) == TheValue(clk_mhz) * 1000000

\* (float(self_c) / float(total_samples)) * 100.0
Percent(selfc, total) == FloatMul(FloatQuot(selfc, total), FloatOfInt(100))

\* cum += pct
CumPercent(cum, pct) == FloatAdd(cum, pct)

\* the loop 'for sym, self_c, total_c in rows', from the k-th tuple on, cum
\* being the sum before it
RECURSIVE FlatRows(_, _, _, _, _)
FlatRows(tuples, total, clk_mhz, k, cum) ==
    IF k > Len(tuples) THEN <<>>
    ELSE LET pct == Percent(tuples[k][2], total)
             next == CumPercent(cum, pct)
         IN  <<FlatRow(tuples[k][1], tuples[k][2], tuples[k][3], pct, next,
                       IF UseTime(clk_mhz)
                       THEN Some(FloatQuot(tuples[k][2], Denom(clk_mhz))) ELSE None,
                       IF UseTime(clk_mhz)
                       THEN Some(FloatQuot(tuples[k][3], Denom(clk_mhz))) ELSE None)>>
                 \o FlatRows(tuples, total, clk_mhz, k + 1, next)

FlatMeta(total, clk_mhz) ==
    IF UseTime(clk_mhz)
    THEN [total_samples |-> total, clk_mhz |-> FloatOfInt(TheValue(clk_mhz)),
          total_time_s |-> FloatQuot(total, Denom(clk_mhz))]
    ELSE [total_samples |-> total]

\* the same function with the check 'if total_samples == 0'
build_flat_nonzero(selfc, totalc, total, clk_mhz) ==
    IF total = 0 THEN NoSamples
    ELSE [kind |-> "flat",
          rows |-> FlatRows(FlatTuples(selfc, totalc), total, clk_mhz, 1, FloatOfInt(0)),
          meta |-> FlatMeta(total, clk_mhz)]

build_flat(selfc, totalc, total, clk_mhz) ==
    IF total <= 0 THEN NoSamples
    ELSE [kind |-> "flat",
          rows |-> FlatRows(FlatTuples(selfc, totalc), total, clk_mhz, 1, FloatOfInt(0)),
          meta |-> FlatMeta(total, clk_mhz)]

\* the same comprehension with r.percent > thr_percent
RECURSIVE AbovePercent(_, _)
AbovePercent(rows, thr) ==
    IF rows = <<>> THEN <<>>
    ELSE IF FloatLess(thr, rows[1].percent)
    THEN <<rows[1]>> \o AbovePercent(Tail(rows), thr)
    ELSE AbovePercent(Tail(rows), thr)

\* [r for r in out if r.percent >= thr_percent]
RECURSIVE AtLeastPercent(_, _)
AtLeastPercent(rows, thr) ==
    IF rows = <<>> THEN <<>>
    ELSE IF FloatLeq(thr, rows[1].percent)
    THEN <<rows[1]>> \o AtLeastPercent(Tail(rows), thr)
    ELSE AtLeastPercent(Tail(rows), thr)

\* the same function with the two if statements in the other order
filter_rows_cap_first(rows, top, thr_percent) ==
    LET capped == IF IsNone(top) THEN rows ELSE Prefix(rows, Max(0, TheValue(top)))
    IN  IF IsNone(thr_percent) THEN capped
        ELSE AtLeastPercent(capped, TheValue(thr_percent))

filter_rows(rows, top, thr_percent) ==
    LET kept == IF IsNone(thr_percent) THEN rows
                ELSE AtLeastPercent(rows, TheValue(thr_percent))
    IN  IF IsNone(top) THEN kept ELSE Prefix(kept, Max(0, TheValue(top)))

(***************************************************************************)
(* combine_inst_cycle                                                      *)
(***************************************************************************)
\* the keys of {r.symbol: r for r in rows}
RowSymbols(rows) == {rows[i].symbol : i \in 1..Len(rows)}

\* {r.symbol: r for r in rows}.get(sym): the last row of the symbol, or None
RowOf(rows, sym) ==
    IF sym \in RowSymbols(rows)
    THEN Some(rows[CHOOSE i \in 1..Len(rows) :
                       /\ rows[i].symbol = sym
                       /\ \A j \in 1..Len(rows) : rows[j].symbol = sym => j <= i])
    ELSE None

\* m.get(key): None when the key is missing
MetaGet(m, key) == IF key \in DOMAIN m THEN Some(m[key]) ELSE None

\* int(m.get("total_samples", 0))
MetaTotal(m) == IF "total_samples" \in DOMAIN m THEN m.total_samples ELSE 0

\* the same ratio with 0.0 where it is undefined
RatioOrZero(n, d) == IF d > 0 THEN Some(FloatQuot(n, d)) ELSE Some(FloatOfInt(0))

\* (float(n) / float(d)) if d > 0 else None
Ratio(n, d) == IF d > 0 THEN Some(FloatQuot(n, d)) ELSE None

\* the same row with the instruction self count read from the total count
CombinedRowMixed(sym, ir, cr) ==
    LET inst_total == IF IsNone(ir) THEN 0 ELSE TheValue(ir).total_count
        cyc_total == IF IsNone(cr) THEN 0 ELSE TheValue(cr).total_count
    IN  [symbol |-> sym,
         inst_self |-> inst_total,
         inst_total |-> inst_total,
         inst_percent |-> IF IsNone(ir) THEN FloatOfInt(0) ELSE TheValue(ir).percent,
         cycle_self |-> IF IsNone(cr) THEN 0 ELSE TheValue(cr).self_count,
         cycle_total |-> cyc_total,
         cycle_percent |-> IF IsNone(cr) THEN FloatOfInt(0) ELSE TheValue(cr).percent,
         ipc |-> Ratio(inst_total, cyc_total),
         cpi |-> Ratio(cyc_total, inst_total)]

CombinedRow(sym, ir, cr) ==
    LET inst_total == IF IsNone(ir) THEN 0 ELSE TheValue(ir).total_count
        cyc_total == IF IsNone(cr) THEN 0 ELSE TheValue(cr).total_count
    IN  [symbol |-> sym,
         inst_self |-> IF IsNone(ir) THEN 0 ELSE TheValue(ir).self_count,
         inst_total |-> inst_total,
         inst_percent |-> IF IsNone(ir) THEN FloatOfInt(0) ELSE TheValue(ir).percent,
         cycle_self |-> IF IsNone(cr) THEN 0 ELSE TheValue(cr).self_count,
         cycle_total |-> cyc_total,
         cycle_percent |-> IF IsNone(cr) THEN FloatOfInt(0) ELSE TheValue(cr).percent,
         ipc |-> Ratio(inst_total, cyc_total),
         cpi |-> Ratio(cyc_total, inst_total)]

\* the same key on the instruction percentage
CombinedLessByInst(a, b) ==
    \/ FloatLess(b.inst_percent, a.inst_percent)
    \/ (a.inst_percent = b.inst_percent /\ StrLess(a.symbol, b.symbol))

\* key=lambda d: (-float(d["cycle_percent"]), str(d["symbol"]))
CombinedLess(a, b) ==
    \/ FloatLess(b.cycle_percent, a.cycle_percent)
    \/ (a.cycle_percent = b.cycle_percent /\ StrLess(a.symbol, b.symbol))

\* combined.sort(key=...): a stable sort, each row put after those not greater
RECURSIVE InsertCombined(_, _)
InsertCombined(x, sorted) ==
    IF sorted = <<>> THEN <<x>>
    ELSE IF CombinedLess(x, sorted[1]) THEN <<x>> \o sorted
    ELSE <<sorted[1]>> \o InsertCombined(x, Tail(sorted))

RECURSIVE SortedCombined(_)
SortedCombined(seq) ==
    IF seq = <<>> THEN <<>>
    ELSE InsertCombined(seq[Len(seq)], SortedCombined(SubSeq(seq, 1, Len(seq) - 1)))

\* [d for d in combined if float(d["cycle_percent"]) >= thr_percent_cycle]
RECURSIVE AtLeastCyclePercent(_, _)
AtLeastCyclePercent(rows, thr) ==
    IF rows = <<>> THEN <<>>
    ELSE IF FloatLeq(thr, rows[1].cycle_percent)
    THEN <<rows[1]>> \o AtLeastCyclePercent(Tail(rows), thr)
    ELSE AtLeastCyclePercent(Tail(rows), thr)

\* the same loop over the symbols of the instruction rows only
JoinedRowsInstOnly(inst_rows, cyc_rows) ==
    LET syms == SortedStrs(RowSymbols(inst_rows))
    IN  [i \in 1..Len(syms) |->
            CombinedRow(syms[i], RowOf(inst_rows, syms[i]), RowOf(cyc_rows, syms[i]))]

\* the rows of the loop over syms, before the sort
JoinedRows(inst_rows, cyc_rows) ==
    LET syms == SortedStrs(RowSymbols(inst_rows) \cup RowSymbols(cyc_rows))
    IN  [i \in 1..Len(syms) |->
            CombinedRow(syms[i], RowOf(inst_rows, syms[i]), RowOf(cyc_rows, syms[i]))]

CombinedMeta(inst_meta, cyc_meta) ==
    [total_instructions |-> MetaTotal(inst_meta),
     total_cycles |-> MetaTotal(cyc_meta),
     CPI |-> Ratio(MetaTotal(cyc_meta), MetaTotal(inst_meta)),
     IPC |-> Ratio(MetaTotal(inst_meta), MetaTotal(cyc_meta)),
     clk_mhz |-> MetaGet(cyc_meta, "clk_mhz"),
     total_time_s |-> MetaGet(cyc_meta, "total_time_s")]

RECURSIVE SumInstSelf(_)
SumInstSelf(rows) == IF rows = <<>> THEN 0 ELSE rows[1].inst_self + SumInstSelf(Tail(rows))

RECURSIVE SumCycleSelf(_)
SumCycleSelf(rows) == IF rows = <<>> THEN 0 ELSE rows[1].cycle_self + SumCycleSelf(Tail(rows))

\* the same function with the totals of the summary summed over the kept rows
combine_inst_cycle_kept_totals(inst_rows, inst_meta, cyc_rows, cyc_meta, top, thr_percent_cycle) ==
    LET sorted == SortedCombined(JoinedRows(inst_rows, cyc_rows))
        kept == IF IsNone(thr_percent_cycle) THEN sorted
                ELSE AtLeastCyclePercent(sorted, TheValue(thr_percent_cycle))
        rows == IF IsNone(top) THEN kept ELSE Prefix(kept, Max(0, TheValue(top)))
    IN  [rows |-> rows,
         meta |-> [CombinedMeta(inst_meta, cyc_meta) EXCEPT
                      !.total_instructions = SumInstSelf(rows),
                      !.total_cycles = SumCycleSelf(rows)]]

combine_inst_cycle(inst_rows, inst_meta, cyc_rows, cyc_meta, top, thr_percent_cycle) ==
    LET sorted == SortedCombined(JoinedRows(inst_rows, cyc_rows))
        kept == IF IsNone(thr_percent_cycle) THEN sorted
                ELSE AtLeastCyclePercent(sorted, TheValue(thr_percent_cycle))
    IN  [rows |-> IF IsNone(top) THEN kept ELSE Prefix(kept, Max(0, TheValue(top))),
         meta |-> CombinedMeta(inst_meta, cyc_meta)]

(***************************************************************************)
(* Inputs                                                                  *)
(***************************************************************************)
MaxLineLen == 5

MaxLines == 3

MaxRows == 4

MaxTraceLines == 2

\* the characters of the lines given to parse_folded_line on its own: "a",
\* ";", " ", "\n", the ogham space mark U+1680, "0", "1", the Arabic-Indic
\* digit one U+0661, "-" and "_"
Chars == {97, 59, 32, 10, 5760, 48, 49, 1633, 45, 95}

\* every sequence over S of length at most n
SeqsUpTo(S, n) == UNION {[1..k -> S] : k \in 0..n}

\* str(n)
RECURSIVE NatStr(_)
NatStr(n) == IF n < 10 THEN <<48 + n>> ELSE NatStr(n \div 10) \o <<48 + (n % 10)>>

IntStr(n) == IF n < 0 THEN <<45>> \o NatStr(-n) ELSE NatStr(n)

\* ";".join(frames)
RECURSIVE Joined(_)
Joined(frames) ==
    IF Len(frames) = 1 THEN frames[1] ELSE frames[1] \o <<59>> \o Joined(Tail(frames))

\* what a trace line is written from: a sample, or text that is not one
Written(frames, count) == [kind |-> "sample", frames |-> frames, count |-> count]

Text(text) == [kind |-> "text", text |-> text]

\* the line of the folded format for an item: the stack, " ", the count, "\n"
FoldedLine(item) ==
    IF item.kind = "sample"
    THEN Joined(item.frames) \o <<32>> \o IntStr(item.count) \o <<10>>
    ELSE item.text

FoldedLines(items) == [i \in 1..Len(items) |-> FoldedLine(items[i])]

\* "\n" and " \n"
BlankItems == {Text(<<10>>), Text(<<32, 10>>)}

\* "x\n"
MalformedItems == {Text(<<120, 10>>)}

\* the items of the traces given to accumulate on its own: the stacks "a",
\* "a;b" and "b;a;b"
Stacks == {<<<<97>>>>, <<<<97>>, <<98>>>>, <<<<98>>, <<97>>, <<98>>>>}

SampleCounts == {-1, 0, 1, 2}

Items ==
    {Written(f, c) : f \in Stacks, c \in SampleCounts}
        \cup {Text(<<10>>)} \cup MalformedItems

\* the items of the trace files main reads: "a 1", "b 2", "a;b 1" and "x"
FileItems ==
    {Written(<<<<97>>>>, 1), Written(<<<<98>>>>, 2),
     Written(<<<<97>>, <<98>>>>, 1), Text(<<120, 10>>)}

\* the flat rows given to combine_inst_cycle on its own, of the symbols "a",
\* "b" and "ab"
RowSyms == {<<97>>, <<98>>, <<97, 98>>}

RowPool ==
    {FlatRow(sym, 0, 0, FloatOfInt(0), FloatOfInt(0), None, None) : sym \in RowSyms}
        \cup {FlatRow(sym, 1, 2, FloatOfInt(50), FloatOfInt(50), None, None) : sym \in RowSyms}
        \cup {FlatRow(sym, 2, 3, FloatOfInt(100), FloatOfInt(100), None, None) : sym \in RowSyms}

\* a flat-row list as build_flat makes them: no symbol twice, in rank order
OneRowPerSymbol(rows) ==
    /\ \A i, j \in 1..Len(rows) : rows[i].symbol = rows[j].symbol => i = j
    /\ \A i \in 1..Len(rows) - 1 :
           FlatLess(<<rows[i].symbol, rows[i].self_count>>,
                    <<rows[i + 1].symbol, rows[i + 1].self_count>>)

InstMetas == {[total_samples |-> 0], [total_samples |-> 4]}

CycMetas ==
    {[total_samples |-> 0],
     [total_samples |-> 2, clk_mhz |-> FloatOfInt(100), total_time_s |-> FloatQuot(2, 100000000)]}

Tops == {None, Some(-1), Some(1), Some(2)}

Thresholds == {None, Some(FloatOfInt(50))}

\* the rows given to filter_rows on its own: any sequence of rows, in any
\* order, with a percent of 50.0, of 56.99999999999999 (what 57 samples of
\* 100 give) or of 100.0, filtered at 50.0 or at 57.0
FilterSyms == {<<97>>, <<98>>}

FilterPool ==
    {r \in RowPool : r.symbol \in FilterSyms /\ r.self_count > 0}
        \cup {FlatRow(sym, 57, 57, Percent(57, 100), Percent(57, 100), None, None) : sym \in FilterSyms}

FilterThresholds == Thresholds \cup {Some(FloatOfInt(57))}

\* the count tables given to build_flat on its own
MaxKeys == 2

TableCounts == {0, 1, 2}

DistinctKeys(d) == \A i, j \in 1..Len(d) : d[i][1] = d[j][1] => i = j

\* a dict of counts with its keys in any insertion order
CountTables == {d \in SeqsUpTo(RowSyms \X TableCounts, MaxKeys) : DistinctKeys(d)}

\* build_flat only looks keys up in total_counts: one insertion order and one
\* count are enough
LookupTables ==
    {d \in CountTables :
        /\ \A i \in 1..Len(d) - 1 : StrLess(d[i][1], d[i + 1][1])
        /\ \A i \in 1..Len(d) : d[i][2] = 2}

SampleTotals == {-1, 0, 1, 2, 3}

Clocks == {None, Some(0), Some(100)}


(***************************************************************************)
(* What a run leaves behind                                                *)
(***************************************************************************)
\* a call made, and what it was made with
Called(fn, with) == [fn |-> fn, with |-> with]

Printed(stream, what, rows, table_meta) ==
    [stream |-> stream, what |-> what, rows |-> rows, meta |-> table_meta]

\* an exception nobody catches: the traceback and nothing else
Traceback(e) == Printed("stderr", "traceback", <<>>, e)

(***************************************************************************)
(* A call of parse_folded_line                                             *)
(***************************************************************************)
\* "a 11...1", its count one digit longer than int() converts
LongCountLine == <<97, 32>> \o [i \in 1..(MaxStrDigits + 1) |-> 49]

InitParse ==
    /\ entry = "parse_folded_line"
    /\ pc = "call"
    /\ line \in SeqsUpTo(Chars, MaxLineLen) \cup {LongCountLine}
    /\ parsed = None
    /\ lines = None /\ consumed = None
    /\ self_counts = None /\ total_counts = None /\ total_samples = None
    /\ args = None /\ t_acc = None /\ t_rows = None /\ t_meta = None
    /\ s_acc = None /\ s_rows = None /\ s_meta = None
    /\ combined = None /\ meta = None /\ calls = <<>> /\ output = <<>>

ParseReturn ==
    /\ entry = "parse_folded_line" /\ pc = "call"
    /\ parse_folded_line(line).kind # "ValueError"
    /\ parsed' = parse_folded_line(line)
    /\ pc' = "returned"
    /\ UNCHANGED <<entry, line, lines, consumed, self_counts, total_counts,
                   total_samples, args, t_acc, t_rows, t_meta, s_acc, s_rows,
                   s_meta, combined, meta, calls, output>>

ParseRaise ==
    /\ entry = "parse_folded_line" /\ pc = "call"
    /\ parse_folded_line(line).kind = "ValueError"
    /\ parsed' = parse_folded_line(line)
    /\ pc' = "raised"
    /\ UNCHANGED <<entry, line, lines, consumed, self_counts, total_counts,
                   total_samples, args, t_acc, t_rows, t_meta, s_acc, s_rows,
                   s_meta, combined, meta, calls, output>>

NextParse == ParseReturn \/ ParseRaise

SpecParse == InitParse /\ [][NextParse]_vars

(***************************************************************************)
(* A call of accumulate                                                    *)
(***************************************************************************)
InitAcc ==
    /\ entry = "accumulate"
    /\ pc = "loop"
    /\ \E items \in SeqsUpTo(Items, MaxLines) :
           /\ lines = FoldedLines(items)
           /\ consumed = [written |-> items, done |-> 0]
    /\ self_counts = <<>> /\ total_counts = <<>> /\ total_samples = 0
    /\ line = None /\ parsed = None
    /\ args = None /\ t_acc = None /\ t_rows = None /\ t_meta = None
    /\ s_acc = None /\ s_rows = None /\ s_meta = None
    /\ combined = None /\ meta = None /\ calls = <<>> /\ output = <<>>

\* one iteration of the loop: the line is skipped, counted, or raises
AccStep ==
    /\ entry = "accumulate" /\ pc = "loop" /\ lines # <<>>
    /\ LET next == AccLine(Counts(self_counts, total_counts, total_samples), lines[1])
       IN  /\ line' = lines[1]
           /\ parsed' = parse_folded_line(lines[1])
           /\ IF next.kind = "ValueError"
              THEN /\ pc' = "raised"
                   /\ UNCHANGED <<self_counts, total_counts, total_samples, lines,
                                  consumed>>
              ELSE /\ pc' = "loop"
                   /\ self_counts' = next.self_counts
                   /\ total_counts' = next.total_counts
                   /\ total_samples' = next.total_samples
                   /\ lines' = Tail(lines)
                   /\ consumed' = [consumed EXCEPT !.done = @ + 1]
    /\ UNCHANGED <<entry, args, t_acc, t_rows, t_meta, s_acc, s_rows, s_meta,
                   combined, meta, calls, output>>

AccReturn ==
    /\ entry = "accumulate" /\ pc = "loop" /\ lines = <<>>
    /\ pc' = "returned"
    /\ UNCHANGED <<entry, line, parsed, lines, consumed, self_counts, total_counts,
                   total_samples, args, t_acc, t_rows, t_meta, s_acc, s_rows,
                   s_meta, combined, meta, calls, output>>

NextAcc == AccStep \/ AccReturn

SpecAcc == InitAcc /\ [][NextAcc]_vars

(***************************************************************************)
(* A call of build_flat                                                    *)
(***************************************************************************)
\* the arguments are built by the caller, or are what accumulate returned for
\* the lines of a trace (main, lines 436-437)
InitBuild ==
    /\ entry = "build_flat"
    /\ pc = "call"
    /\ \/ /\ self_counts \in CountTables
          /\ total_counts \in LookupTables
          /\ total_samples \in SampleTotals
          /\ args \in [clk_mhz : Clocks]
          /\ lines = None /\ consumed = None /\ calls = <<>>
       \/ \E items \in SeqsUpTo(Items, MaxLines) :
              LET r == accumulate(FoldedLines(items))
              IN  /\ r.kind = "counts"
                  /\ self_counts = r.self_counts
                  /\ total_counts = r.total_counts
                  /\ total_samples = r.total_samples
                  /\ args = [clk_mhz |-> None]
                  /\ lines = FoldedLines(items)
                  /\ consumed = [written |-> items, done |-> Len(items)]
                  /\ calls = <<Called("accumulate", "lines")>>
    /\ line = None /\ parsed = None
    /\ t_acc = None /\ t_rows = None /\ t_meta = None
    /\ s_acc = None /\ s_rows = None /\ s_meta = None
    /\ combined = None /\ meta = None /\ output = <<>>

\* the call: it returns the rows and the metadata, or raises
BuildCall ==
    /\ entry = "build_flat" /\ pc = "call"
    /\ LET r == build_flat(self_counts, total_counts, total_samples, args.clk_mhz)
       IN  IF r.kind = "ValueError"
           THEN /\ pc' = "raised"
                /\ output' = Append(output, Traceback(r))
                /\ UNCHANGED <<t_rows, t_meta>>
           ELSE /\ pc' = "returned"
                /\ t_rows' = r.rows
                /\ t_meta' = r.meta
                /\ UNCHANGED output
    /\ UNCHANGED <<entry, line, parsed, lines, consumed, self_counts, total_counts,
                   total_samples, args, t_acc, s_acc, s_rows, s_meta, combined,
                   meta, calls>>

NextBuild == BuildCall

SpecBuild == InitBuild /\ [][NextBuild]_vars

(***************************************************************************)
(* A call of filter_rows                                                   *)
(***************************************************************************)
InitFilter ==
    /\ entry = "filter_rows"
    /\ pc = "call"
    /\ t_rows \in SeqsUpTo(FilterPool, MaxRows)
    /\ args \in [top : Tops, thr : FilterThresholds]
    /\ line = None /\ parsed = None /\ lines = None /\ consumed = None
    /\ self_counts = None /\ total_counts = None /\ total_samples = None
    /\ t_acc = None /\ t_meta = None
    /\ s_acc = None /\ s_rows = None /\ s_meta = None
    /\ combined = None /\ meta = None /\ calls = <<>> /\ output = <<>>

FilterCall ==
    /\ entry = "filter_rows" /\ pc = "call"
    /\ s_rows' = filter_rows(t_rows, args.top, args.thr)
    /\ pc' = "returned"
    /\ UNCHANGED <<entry, line, parsed, lines, consumed, self_counts, total_counts,
                   total_samples, args, t_acc, t_rows, t_meta, s_acc, s_meta,
                   combined, meta, calls, output>>

\* filter_rows called on the rows build_flat ranked for an accepted trace
\* (main, lines 436-438)
InitRanked ==
    /\ entry = "filter_rows"
    /\ pc = "rank"
    /\ \E items \in SeqsUpTo(Items, MaxLines) :
           LET r == accumulate(FoldedLines(items))
           IN  /\ r.kind = "counts"
               /\ r.total_samples > 0
               /\ self_counts = r.self_counts
               /\ total_counts = r.total_counts
               /\ total_samples = r.total_samples
               /\ lines = FoldedLines(items)
               /\ consumed = [written |-> items, done |-> Len(items)]
    /\ args \in [top : Tops, thr : Thresholds]
    /\ line = None /\ parsed = None
    /\ t_acc = None /\ t_rows = None /\ t_meta = None
    /\ s_acc = None /\ s_rows = None /\ s_meta = None
    /\ combined = None /\ meta = None
    /\ calls = <<Called("accumulate", "lines")>> /\ output = <<>>

\* t_rows, t_meta = build_flat(t_self, t_total, t_sum)
RankRows ==
    /\ entry = "filter_rows" /\ pc = "rank"
    /\ LET r == build_flat(self_counts, total_counts, total_samples, None)
       IN  /\ r.kind = "flat"
           /\ t_rows' = r.rows
           /\ t_meta' = r.meta
    /\ calls' = Append(calls, Called("build_flat", "counts"))
    /\ pc' = "call"
    /\ UNCHANGED <<entry, line, parsed, lines, consumed, self_counts, total_counts,
                   total_samples, args, t_acc, s_acc, s_rows, s_meta, combined,
                   meta, output>>

NextRanked == RankRows \/ FilterCall

SpecRanked == InitRanked /\ [][NextRanked]_vars

NextFilter == FilterCall

SpecFilter == InitFilter /\ [][NextFilter]_vars

(***************************************************************************)
(* A call of combine_inst_cycle                                            *)
(***************************************************************************)
InitCombine ==
    /\ entry = "combine_inst_cycle"
    /\ pc = "call"
    /\ t_rows \in SeqsUpTo(RowPool, MaxRows)
    /\ s_rows \in SeqsUpTo(RowPool, MaxRows - Len(t_rows))
    /\ OneRowPerSymbol(t_rows) /\ OneRowPerSymbol(s_rows)
    /\ t_meta \in InstMetas
    /\ s_meta \in CycMetas
    /\ args \in [top : Tops, thr_cycle : Thresholds]
    /\ line = None /\ parsed = None /\ lines = None /\ consumed = None
    /\ self_counts = None /\ total_counts = None /\ total_samples = None
    /\ t_acc = None /\ s_acc = None
    /\ combined = None /\ meta = None /\ calls = <<>> /\ output = <<>>

CombineCall ==
    /\ entry = "combine_inst_cycle" /\ pc = "call"
    /\ LET r == combine_inst_cycle(t_rows, t_meta, s_rows, s_meta,
                                   args.top, args.thr_cycle)
       IN  combined' = r.rows /\ meta' = r.meta
    /\ pc' = "returned"
    /\ UNCHANGED <<entry, line, parsed, lines, consumed, self_counts, total_counts,
                   total_samples, args, t_acc, t_rows, t_meta, s_acc, s_rows,
                   s_meta, calls, output>>

NextCombine == CombineCall

SpecCombine == InitCombine /\ [][NextCombine]_vars


(***************************************************************************)
(* A run of main                                                           *)
(***************************************************************************)
\* the command lines: --csv and --plot are read only in a single-trace run
MainArgs ==
    [trace_exists : BOOLEAN, second : {"none", "missing", "file"},
     top : {None, Some(1)}, thr : Thresholds, thr_cycle : Thresholds,
     clk_mhz : {None, Some(100)}, second_clk_mhz : {None, Some(100)},
     csv : {FALSE}, plot : {FALSE}]
        \cup
    [trace_exists : {TRUE}, second : {"none"},
     top : {None, Some(1)}, thr : Thresholds, thr_cycle : {None},
     clk_mhz : {None, Some(100)}, second_clk_mhz : {None},
     csv : BOOLEAN, plot : BOOLEAN]

\* the contents a trace file can have
TraceFiles == {FoldedLines(items) : items \in SeqsUpTo(FileItems, MaxTraceLines)}

InitMain ==
    /\ entry = "main"
    /\ pc = "start"
    /\ args \in MainArgs
    /\ line = None /\ parsed = None /\ lines = None /\ consumed = None
    /\ self_counts = None /\ total_counts = None /\ total_samples = None
    /\ t_acc = None /\ t_rows = None /\ t_meta = None
    /\ s_acc = None /\ s_rows = None /\ s_meta = None
    /\ combined = None /\ meta = None /\ calls = <<>> /\ output = <<>>

\* if not os.path.isfile(args.trace): ... return 2
MainCheckTrace ==
    /\ entry = "main" /\ pc = "start"
    /\ calls' = Append(calls, Called("isfile", "trace"))
    /\ IF args.trace_exists
       THEN pc' = "read1" /\ UNCHANGED output
       ELSE /\ pc' = "returned2"
            /\ output' = Append(output, Printed("stderr", "trace not found", <<>>, None))
    /\ UNCHANGED <<entry, line, parsed, lines, consumed, self_counts, total_counts,
                   total_samples, args, t_acc, t_rows, t_meta, s_acc, s_rows,
                   s_meta, combined, meta>>

\* t_self, t_total, t_sum = accumulate(_read_lines(args.trace))
MainFirstTrace ==
    /\ entry = "main" /\ pc = "read1"
    /\ \E file \in TraceFiles :
           LET r == accumulate(file)
           IN  /\ lines' = file
               /\ calls' = Append(calls, Called("accumulate", "trace"))
               /\ IF r.kind = "ValueError"
                  THEN /\ pc' = "raised"
                       /\ output' = Append(output, Traceback(r))
                       /\ UNCHANGED t_acc
                  ELSE /\ pc' = "build1"
                       /\ t_acc' = r
                       /\ UNCHANGED output
    /\ UNCHANGED <<entry, line, parsed, consumed, self_counts, total_counts,
                   total_samples, args, t_rows, t_meta, s_acc, s_rows, s_meta,
                   combined, meta>>

\* t_rows, t_meta = build_flat(t_self, t_total, t_sum, clk_mhz=args.clk_mhz)
MainBuildFirst ==
    /\ entry = "main" /\ pc = "build1"
    /\ LET r == build_flat(t_acc.self_counts, t_acc.total_counts,
                           t_acc.total_samples, args.clk_mhz)
       IN  /\ calls' = Append(calls, Called("build_flat", "trace"))
           /\ IF r.kind = "ValueError"
              THEN /\ pc' = "raised"
                   /\ output' = Append(output, Traceback(r))
                   /\ UNCHANGED <<t_rows, t_meta>>
              ELSE /\ pc' = "filter1"
                   /\ t_rows' = r.rows
                   /\ t_meta' = r.meta
                   /\ UNCHANGED output
    /\ UNCHANGED <<entry, line, parsed, lines, consumed, self_counts, total_counts,
                   total_samples, args, t_acc, s_acc, s_rows, s_meta, combined, meta>>

\* t_rows = filter_rows(t_rows, top=args.top, thr_percent=args.thr)
MainFilterFirst ==
    /\ entry = "main" /\ pc = "filter1"
    /\ calls' = Append(calls, Called("filter_rows", "trace"))
    /\ t_rows' = filter_rows(t_rows, args.top, args.thr)
    /\ pc' = "second"
    /\ UNCHANGED <<entry, line, parsed, lines, consumed, self_counts, total_counts,
                   total_samples, args, t_acc, t_meta, s_acc, s_rows, s_meta,
                   combined, meta, output>>

\* if args.second_trace: if not os.path.isfile(args.second_trace): ... return 2
MainCheckSecond ==
    /\ entry = "main" /\ pc = "second"
    /\ IF args.second = "none"
       THEN pc' = "print_flat" /\ UNCHANGED <<calls, output>>
       ELSE /\ calls' = Append(calls, Called("isfile", "second_trace"))
            /\ IF args.second = "file"
               THEN pc' = "read2" /\ UNCHANGED output
               ELSE /\ pc' = "returned2"
                    /\ output' = Append(output,
                           Printed("stderr", "second trace not found", <<>>, None))
    /\ UNCHANGED <<entry, line, parsed, lines, consumed, self_counts, total_counts,
                   total_samples, args, t_acc, t_rows, t_meta, s_acc, s_rows,
                   s_meta, combined, meta>>

\* s_self, s_total, s_sum = accumulate(_read_lines(args.second_trace))
MainSecondTrace ==
    /\ entry = "main" /\ pc = "read2"
    /\ \E file \in TraceFiles :
           LET r == accumulate(file)
           IN  /\ lines' = file
               /\ calls' = Append(calls, Called("accumulate", "second_trace"))
               /\ IF r.kind = "ValueError"
                  THEN /\ pc' = "raised"
                       /\ output' = Append(output, Traceback(r))
                       /\ UNCHANGED s_acc
                  ELSE /\ pc' = "build2"
                       /\ s_acc' = r
                       /\ UNCHANGED output
    /\ UNCHANGED <<entry, line, parsed, consumed, self_counts, total_counts,
                   total_samples, args, t_acc, t_rows, t_meta, s_rows, s_meta,
                   combined, meta>>

\* s_rows, s_meta = build_flat(s_self, s_total, s_sum, clk_mhz=args.second_clk_mhz)
MainBuildSecond ==
    /\ entry = "main" /\ pc = "build2"
    /\ LET r == build_flat(s_acc.self_counts, s_acc.total_counts,
                           s_acc.total_samples, args.second_clk_mhz)
       IN  /\ calls' = Append(calls, Called("build_flat", "second_trace"))
           /\ IF r.kind = "ValueError"
              THEN /\ pc' = "raised"
                   /\ output' = Append(output, Traceback(r))
                   /\ UNCHANGED <<s_rows, s_meta>>
              ELSE /\ pc' = "combine"
                   /\ s_rows' = r.rows
                   /\ s_meta' = r.meta
                   /\ UNCHANGED output
    /\ UNCHANGED <<entry, line, parsed, lines, consumed, self_counts, total_counts,
                   total_samples, args, t_acc, t_rows, t_meta, s_acc, combined, meta>>

\* combined, meta = combine_inst_cycle(t_rows, t_meta, s_rows, s_meta, ...)
MainCombine ==
    /\ entry = "main" /\ pc = "combine"
    /\ LET r == combine_inst_cycle(t_rows, t_meta, s_rows, s_meta,
                                   args.top, args.thr_cycle)
       IN  combined' = r.rows /\ meta' = r.meta
    /\ calls' = Append(calls, Called("combine_inst_cycle",
                                     [inst_rows |-> t_rows, cyc_rows |-> s_rows]))
    /\ pc' = "print_combined"
    /\ UNCHANGED <<entry, line, parsed, lines, consumed, self_counts, total_counts,
                   total_samples, args, t_acc, t_rows, t_meta, s_acc, s_rows,
                   s_meta, output>>

\* print(...); print_combined(combined, meta); return 0
MainPrintCombined ==
    /\ entry = "main" /\ pc = "print_combined"
    /\ output' = Append(output, Printed("stdout", "combined", combined, meta))
    /\ pc' = "returned0"
    /\ UNCHANGED <<entry, line, parsed, lines, consumed, self_counts, total_counts,
                   total_samples, args, t_acc, t_rows, t_meta, s_acc, s_rows,
                   s_meta, combined, meta, calls>>

\* print(title); print_flat(t_rows, t_meta)
MainPrintFlat ==
    /\ entry = "main" /\ pc = "print_flat"
    /\ output' = Append(output, Printed("stdout", "flat", t_rows, t_meta))
    /\ pc' = "csv"
    /\ UNCHANGED <<entry, line, parsed, lines, consumed, self_counts, total_counts,
                   total_samples, args, t_acc, t_rows, t_meta, s_acc, s_rows,
                   s_meta, combined, meta, calls>>

\* if args.csv: write_csv(t_rows, args.csv)
MainWriteCsv ==
    /\ entry = "main" /\ pc = "csv"
    /\ output' = IF args.csv THEN Append(output, Printed("csv", "flat", t_rows, None))
                 ELSE output
    /\ pc' = "plot"
    /\ UNCHANGED <<entry, line, parsed, lines, consumed, self_counts, total_counts,
                   total_samples, args, t_acc, t_rows, t_meta, s_acc, s_rows,
                   s_meta, combined, meta, calls>>

\* if args.plot: maybe_plot(...); print(...)   return 0
MainPlot ==
    /\ entry = "main" /\ pc = "plot"
    /\ \/ /\ output' = IF args.plot
                       THEN Append(output, Printed("png", "flat", t_rows, None))
                       ELSE output
          /\ pc' = "returned0"
       \/ \* matplotlib is not installed
          /\ args.plot
          /\ output' = Append(output, Traceback([kind |-> "RuntimeError"]))
          /\ pc' = "raised"
    /\ UNCHANGED <<entry, line, parsed, lines, consumed, self_counts, total_counts,
                   total_samples, args, t_acc, t_rows, t_meta, s_acc, s_rows,
                   s_meta, combined, meta, calls>>

NextMain ==
    \/ MainCheckTrace \/ MainFirstTrace \/ MainBuildFirst \/ MainFilterFirst
    \/ MainCheckSecond \/ MainSecondTrace \/ MainBuildSecond \/ MainCombine
    \/ MainPrintCombined \/ MainPrintFlat \/ MainWriteCsv \/ MainPlot

SpecMain == InitMain /\ [][NextMain]_vars

(***************************************************************************)
(* Every caller of the module                                              *)
(***************************************************************************)
Init == InitParse \/ InitAcc \/ InitBuild \/ InitFilter \/ InitCombine \/ InitMain

Next == NextParse \/ NextAcc \/ NextBuild \/ NextFilter \/ NextCombine \/ NextMain

Spec == Init /\ [][Next]_vars

\* the two functions that filter a table, each called on its own
SpecFiltering == (InitFilter \/ InitCombine) /\ [][NextFilter \/ NextCombine]_vars

\* combine_inst_cycle, called on its own or by main
SpecCombined == (InitCombine \/ InitMain) /\ [][NextCombine \/ NextMain]_vars


(***************************************************************************)
(* Properties of the merge                                                 *)
(***************************************************************************)
\* combine_inst_cycle has returned; its arguments are t_rows, t_meta, s_rows, s_meta
CombineReturned ==
    \/ entry = "combine_inst_cycle" /\ pc = "returned"
    \/ entry = "main" /\ pc = "print_combined"
    \/ entry = "main" /\ pc = "returned0" /\ args.second = "file"

CombinedSymbols == {combined[i].symbol : i \in 1..Len(combined)}

InputSymbols == RowSymbols(t_rows) \cup RowSymbols(s_rows)

\* what build_flat returned for the first and for the second trace of this run
FirstFlat ==
    build_flat(t_acc.self_counts, t_acc.total_counts, t_acc.total_samples, args.clk_mhz)

SecondFlat ==
    build_flat(s_acc.self_counts, s_acc.total_counts, s_acc.total_samples,
               args.second_clk_mhz)

\* C1: in a two-trace run of main, both row lists handed to combine_inst_cycle
\* are the complete outputs of build_flat: filter_rows has removed no row of
\* either side before the merge.
C1_MergeGetsUnfilteredRows ==
    \A i \in 1..Len(calls) :
        calls[i].fn = "combine_inst_cycle" =>
            /\ calls[i].with.inst_rows = FirstFlat.rows
            /\ calls[i].with.cyc_rows = SecondFlat.rows

\* C2: with no threshold and no cap, the combined table has exactly one row per
\* symbol of the union of the two input symbol sets, and no other row.
C2_OneRowPerSymbolOfUnion ==
    (CombineReturned /\ IsNone(args.top) /\ IsNone(args.thr_cycle)) =>
        /\ CombinedSymbols = InputSymbols
        /\ Len(combined) = Cardinality(InputSymbols)

\* a merge of a symbol of both sides, one of the first side only and one of the
\* second side only
C2_Witness ==
    /\ CombineReturned /\ IsNone(args.top) /\ IsNone(args.thr_cycle)
    /\ RowSymbols(t_rows) \cap RowSymbols(s_rows) # {}
    /\ RowSymbols(t_rows) \ RowSymbols(s_rows) # {}
    /\ RowSymbols(s_rows) \ RowSymbols(t_rows) # {}
    /\ Len(combined) = 3

\* C3: in every combined row, ipc is present exactly when cycle_total > 0 and is
\* then inst_total / cycle_total; cpi is present exactly when inst_total > 0 and
\* is then cycle_total / inst_total (the nearest double); each is decided on
\* its own.
C3_RatiosPresentIffDefined ==
    CombineReturned =>
        \A i \in 1..Len(combined) :
            LET r == combined[i]
            IN  /\ IsNone(r.ipc) <=> ~(r.cycle_total > 0)
                /\ r.cycle_total > 0 =>
                       TheValue(r.ipc) = FloatQuot(r.inst_total, r.cycle_total)
                /\ IsNone(r.cpi) <=> ~(r.inst_total > 0)
                /\ r.inst_total > 0 =>
                       TheValue(r.cpi) = FloatQuot(r.cycle_total, r.inst_total)

\* a row with ipc and no cpi beside a row with cpi and no ipc
C3_Witness ==
    /\ CombineReturned
    /\ \E i, j \in 1..Len(combined) :
           /\ ~IsNone(combined[i].ipc) /\ IsNone(combined[i].cpi)
           /\ IsNone(combined[j].ipc) /\ ~IsNone(combined[j].cpi)
    /\ \E i \in 1..Len(combined) :
           ~IsNone(combined[i].ipc) /\ TheValue(combined[i].ipc) = FloatQuot(2, 3)

\* the three fields a combined row takes from one side
SideOfFlat(r) == <<r.self_count, r.total_count, r.percent>>

InstSide(d) == <<d.inst_self, d.inst_total, d.inst_percent>>

CycleSide(d) == <<d.cycle_self, d.cycle_total, d.cycle_percent>>

AbsentSide == <<0, 0, FloatOfInt(0)>>

\* C4: a symbol present on one side only has zero for the self count, the total
\* count and the percentage of the absent side, and the fields of a side where
\* it is present are those of that side's flat row.
C4_AbsentSideIsZero ==
    CombineReturned =>
        \A i \in 1..Len(combined) :
            LET d == combined[i]
            IN  /\ IF d.symbol \in RowSymbols(t_rows)
                   THEN \E k \in 1..Len(t_rows) :
                            /\ t_rows[k].symbol = d.symbol
                            /\ InstSide(d) = SideOfFlat(t_rows[k])
                   ELSE InstSide(d) = AbsentSide
                /\ IF d.symbol \in RowSymbols(s_rows)
                   THEN \E k \in 1..Len(s_rows) :
                            /\ s_rows[k].symbol = d.symbol
                            /\ CycleSide(d) = SideOfFlat(s_rows[k])
                   ELSE CycleSide(d) = AbsentSide

\* a table with a row of the first side only and a row of the second side only,
\* both with counts that are not zero where the symbol is present
C4_Witness ==
    /\ CombineReturned
    /\ \E i, j \in 1..Len(combined) :
           /\ combined[i].symbol \notin RowSymbols(t_rows)
           /\ combined[i].cycle_self > 0
           /\ combined[i].cycle_total > combined[i].cycle_self
           /\ combined[j].symbol \notin RowSymbols(s_rows)
           /\ combined[j].inst_self > 0
           /\ combined[j].inst_total > combined[j].inst_self

\* C5: the combined table is ordered by cycle percentage descending, ties by
\* symbol ascending; the instruction percentages play no part.
C5_OrderedByCyclePercent ==
    CombineReturned =>
        \A i \in 1..(Len(combined) - 1) :
            LET a == combined[i]
                b == combined[i + 1]
            IN  \/ FloatLess(b.cycle_percent, a.cycle_percent)
                \/ (a.cycle_percent = b.cycle_percent /\ StrLess(a.symbol, b.symbol))

\* a table ranked against the instruction percentages, with a tie on the cycle
\* percentage that the symbol decides against the instruction percentage
C5_Witness ==
    /\ CombineReturned
    /\ Len(combined) = 3
    /\ FloatLess(combined[2].cycle_percent, combined[1].cycle_percent)
    /\ FloatLess(combined[1].inst_percent, combined[2].inst_percent)
    /\ combined[2].cycle_percent = combined[3].cycle_percent
    /\ FloatLess(combined[2].inst_percent, combined[3].inst_percent)

\* C6: the summary depends on the metadata of the two traces only, whatever the
\* cap and the thresholds are; the overall CPI is absent when the first total is
\* 0 and the overall IPC is absent when the second total is 0.  In a run of main
\* the totals are the grand totals of the two traces.
C6_SummaryFromMetadataOnly ==
    CombineReturned =>
        LET ti == IF "total_samples" \in DOMAIN t_meta THEN t_meta.total_samples ELSE 0
            tc == IF "total_samples" \in DOMAIN s_meta THEN s_meta.total_samples ELSE 0
        IN  /\ meta.total_instructions = ti
            /\ meta.total_cycles = tc
            /\ ti = 0 => IsNone(meta.CPI)
            /\ tc = 0 => IsNone(meta.IPC)
            /\ ti > 0 => meta.CPI = Some(FloatQuot(tc, ti))
            /\ tc > 0 => meta.IPC = Some(FloatQuot(ti, tc))
            /\ meta.clk_mhz =
                   IF "clk_mhz" \in DOMAIN s_meta THEN Some(s_meta.clk_mhz) ELSE None
            /\ meta.total_time_s =
                   IF "total_time_s" \in DOMAIN s_meta
                   THEN Some(s_meta.total_time_s) ELSE None
            /\ entry = "main" =>
                   /\ ti = t_acc.total_samples
                   /\ tc = s_acc.total_samples
                   /\ IsNone(meta.clk_mhz) <=> IsNone(args.second_clk_mhz)

\* a run of main whose cap and thresholds removed rows of the merged table,
\* with both overall ratios present
C6_Witness ==
    /\ CombineReturned /\ entry = "main"
    /\ ~IsNone(args.top) /\ ~IsNone(args.thr) /\ ~IsNone(args.thr_cycle)
    /\ Len(combined) < Cardinality(RowSymbols(FirstFlat.rows) \cup RowSymbols(s_rows))
    /\ ~IsNone(meta.CPI) /\ ~IsNone(meta.IPC) /\ ~IsNone(meta.total_time_s)


(***************************************************************************)
(* Properties of accumulate                                                *)
(***************************************************************************)
\* what the lines consumed so far were written from
Done == SubSeq(consumed.written, 1, consumed.done)

IsSampleItem(item) == item.kind = "sample"

IsBlankItem(item) ==
    item.kind = "text" /\ \A i \in 1..Len(item.text) : IsSpace(item.text[i])

\* sum(count for each sample line)
RECURSIVE SumCounts(_)
SumCounts(items) ==
    IF items = <<>> THEN 0
    ELSE (IF IsSampleItem(items[1]) THEN items[1].count ELSE 0) + SumCounts(Tail(items))

RECURSIVE WithoutBlank(_)
WithoutBlank(items) ==
    IF items = <<>> THEN <<>>
    ELSE IF IsBlankItem(items[1]) THEN WithoutBlank(Tail(items))
    ELSE <<items[1]>> \o WithoutBlank(Tail(items))

\* a trace of the folded format: every count is a non-negative integer
ValidCounts(items) ==
    \A i \in 1..Len(items) : IsSampleItem(items[i]) => items[i].count >= 0

\* C7: the self counts sum to the grand total, the grand total is the sum of
\* the counts of the sample lines, and the blank lines change none of the
\* three results.
C7_SelfCountsSumToGrandTotal ==
    entry = "accumulate" =>
        /\ DictSum(self_counts) = total_samples
        /\ total_samples = SumCounts(Done)
        /\ Counts(self_counts, total_counts, total_samples)
               = accumulate(FoldedLines(WithoutBlank(Done)))

\* a returned call on a trace with a blank line between samples of two leaves
C7_Witness ==
    /\ entry = "accumulate" /\ pc = "returned"
    /\ Len(consumed.written) = 3
    /\ IsBlankItem(consumed.written[2])
    /\ Len(self_counts) = 2
    /\ total_samples = 3

\* C8: after accumulate on a valid trace every leaf frame is a key of
\* total_counts and its total count is at least its self count.
C8_LeafTotalAtLeastSelf ==
    (entry = "accumulate" /\ pc = "returned" /\ ValidCounts(consumed.written)) =>
        \A i \in 1..Len(consumed.written) :
            IsSampleItem(consumed.written[i]) =>
                LET frames == consumed.written[i].frames
                    leaf == frames[Len(frames)]
                IN  /\ DictHas(total_counts, leaf)
                    /\ DictHas(self_counts, leaf)
                    /\ DictAt(total_counts, leaf) >= DictAt(self_counts, leaf)

\* a returned call where a leaf is also a caller: its total exceeds its self count
C8_Witness ==
    /\ entry = "accumulate" /\ pc = "returned" /\ ValidCounts(consumed.written)
    /\ \E i \in 1..Len(self_counts) :
           /\ self_counts[i][2] > 0
           /\ DictHas(total_counts, self_counts[i][1])
           /\ DictAt(total_counts, self_counts[i][1]) > self_counts[i][2]
    /\ \E i \in 1..Len(self_counts) :
           /\ self_counts[i][2] > 0
           /\ DictAt(total_counts, self_counts[i][1]) = self_counts[i][2]

\* C11: accumulate never returns a grand total that is 0 or negative: on such
\* a trace it fails instead of returning.
C11_ReturnedGrandTotalIsPositive ==
    (entry = "accumulate" /\ pc = "returned") => total_samples > 0

\* the number of positions of a stack that hold the symbol
Occurrences(frames, sym) == Cardinality({i \in 1..Len(frames) : frames[i] = sym})

\* sum over the sample lines of count * (positions of the stack holding sym)
RECURSIVE PerPositionTotal(_, _)
PerPositionTotal(items, sym) ==
    IF items = <<>> THEN 0
    ELSE (IF IsSampleItem(items[1])
          THEN items[1].count * Occurrences(items[1].frames, sym) ELSE 0)
         + PerPositionTotal(Tail(items), sym)

\* sum over the sample lines whose last frame is sym of count
RECURSIVE LeafTotal(_, _)
LeafTotal(items, sym) ==
    IF items = <<>> THEN 0
    ELSE (IF IsSampleItem(items[1]) /\ items[1].frames[Len(items[1].frames)] = sym
          THEN items[1].count ELSE 0)
         + LeafTotal(Tail(items), sym)

FramesOf(items) ==
    UNION {{items[i].frames[j] : j \in 1..Len(items[i].frames)} :
              i \in {k \in 1..Len(items) : IsSampleItem(items[k])}}

LeavesOf(items) ==
    {items[i].frames[Len(items[i].frames)] :
        i \in {k \in 1..Len(items) : IsSampleItem(items[k])}}

\* C20: after every line, total_counts holds for each symbol the sum of
\* count * k over the samples read, k being the number of stack positions the
\* symbol occupies; self_counts holds the count once for the last frame; the
\* grand total holds the count once.
C20_TotalCountsPerStackPosition ==
    entry = "accumulate" =>
        /\ DictKeys(total_counts) = FramesOf(Done)
        /\ \A sym \in FramesOf(Done) :
               DictAt(total_counts, sym) = PerPositionTotal(Done, sym)
        /\ DictKeys(self_counts) = LeavesOf(Done)
        /\ \A sym \in LeavesOf(Done) :
               DictAt(self_counts, sym) = LeafTotal(Done, sym)
        /\ total_samples = SumCounts(Done)

\* a returned call on the one line 'b;a;b 2': b holds two positions of the stack
C20_Witness ==
    /\ entry = "accumulate" /\ pc = "returned"
    /\ consumed.written = <<Written(<<<<98>>, <<97>>, <<98>>>>, 2)>>
    /\ DictAt(total_counts, <<98>>) = 4
    /\ DictAt(total_counts, <<97>>) = 2
    /\ DictAt(self_counts, <<98>>) = 2
    /\ total_samples = 2

\* the items of a dict: two dicts are equal when they have the same items
DictItems(d) == {d[i] : i \in 1..Len(d)}

SameCounts(x, y) ==
    /\ DictItems(x.self_counts) = DictItems(y.self_counts)
    /\ DictItems(x.total_counts) = DictItems(y.total_counts)
    /\ x.total_samples = y.total_samples

\* every order of the elements of a sequence
Permuted(seq) ==
    {[i \in 1..Len(seq) |-> seq[p[i]]] :
        p \in {q \in [1..Len(seq) -> 1..Len(seq)] :
                  \A i, j \in 1..Len(seq) : q[i] = q[j] => i = j}}

\* the elements at the positions in S, in order
RECURSIVE Shard(_, _, _)
Shard(seq, S, from) ==
    IF from > Len(seq) THEN <<>>
    ELSE (IF from \in S THEN <<seq[from]>> ELSE <<>>) \o Shard(seq, S, from + 1)

Shards == {1, 2, 3}

\* the ways to spread n lines over the shards; the shards are summed, so the
\* one that gets the first line is called shard 1
Shardings(n) == {f \in [1..n -> Shards] : n > 0 => f[1] = 1}

\* the lines that f sends to shard j, in order
ShardOf(items, f, j) == Shard(items, {i \in 1..Len(items) : f[i] = j}, 1)

\* three tables summed key by key
SummedByKey(x, y, z) ==
    {<<k, (DictGet(x, k, 0) + DictGet(y, k, 0)) + DictGet(z, k, 0)>> :
        k \in (DictKeys(x) \cup DictKeys(y)) \cup DictKeys(z)}

\* a trace of well-formed and blank lines only
NoMalformed(items) ==
    \A i \in 1..Len(items) : IsSampleItem(items[i]) \/ IsBlankItem(items[i])

\* C23: for a trace of well-formed and blank lines, every order of the lines
\* gives the same three results, and so does accumulating the lines in shards
\* and summing the partial tables key by key.
C23_OrderAndShardingDoNotMatter ==
    (entry = "accumulate" /\ pc = "returned" /\ NoMalformed(consumed.written)) =>
        LET whole == Counts(self_counts, total_counts, total_samples)
        IN  /\ \A perm \in Permuted(consumed.written) :
                   SameCounts(accumulate(FoldedLines(perm)), whole)
            /\ \A f \in Shardings(Len(consumed.written)) :
                   LET p1 == accumulate(FoldedLines(ShardOf(consumed.written, f, 1)))
                       p2 == accumulate(FoldedLines(ShardOf(consumed.written, f, 2)))
                       p3 == accumulate(FoldedLines(ShardOf(consumed.written, f, 3)))
                   IN  /\ SummedByKey(p1.self_counts, p2.self_counts, p3.self_counts)
                              = DictItems(self_counts)
                       /\ SummedByKey(p1.total_counts, p2.total_counts, p3.total_counts)
                              = DictItems(total_counts)
                       /\ (p1.total_samples + p2.total_samples) + p3.total_samples
                              = total_samples

\* a returned call on three lines that share the leaf b, one of them with b
\* twice in its stack
C23_Witness ==
    /\ entry = "accumulate" /\ pc = "returned"
    /\ Len(consumed.written) = 3
    /\ consumed.written[1] = Written(<<<<97>>, <<98>>>>, 1)
    /\ consumed.written[2] = Written(<<<<98>>, <<97>>, <<98>>>>, 2)
    /\ consumed.written[3] = Written(<<<<97>>>>, 2)
    /\ DictAt(self_counts, <<98>>) = 3
    /\ DictAt(total_counts, <<97>>) = 5

(***************************************************************************)
(* Properties of build_flat                                                *)
(***************************************************************************)
BuildReturned == entry = "build_flat" /\ pc = "returned"

BuildRaised == entry = "build_flat" /\ pc = "raised"

\* the arguments of this call are what accumulate returned for a trace
FromTrace == calls # <<>>

\* C12: called with total_samples <= 0, build_flat raises "no samples" and
\* returns neither rows nor metadata, whatever the count tables hold; when it
\* returns, the total_samples of its metadata is > 0.
C12_NoSamplesUnlessPositiveTotal ==
    /\ (BuildReturned \/ BuildRaised) =>
           (total_samples <= 0 <=> BuildRaised)
    /\ BuildRaised =>
           /\ output = <<Traceback(NoSamples)>>
           /\ t_rows = None /\ t_meta = None
    /\ BuildReturned =>
           /\ t_meta.total_samples > 0
           /\ t_meta.total_samples = total_samples
           /\ output = <<>>

\* a call with a negative total and two keys in each table has raised
C12_Witness ==
    /\ BuildRaised /\ total_samples = -1
    /\ Len(self_counts) = 2 /\ Len(total_counts) = 2

\* every insertion order of the items of a dict
Reorderings(d) ==
    {[i \in 1..Len(d) |-> d[p[i]]] :
        p \in {q \in [1..Len(d) -> 1..Len(d)] :
                  \A i, j \in 1..Len(d) : q[i] = q[j] => i = j}}

\* C15: the rows build_flat returns are ranked by self count descending, then
\* by symbol ascending, and the ranking (which symbol, with which self count,
\* is in which place) is the same for every insertion order of the count table.
C15_RowsInRankOrder ==
    BuildReturned =>
        /\ \A k \in 1..Len(t_rows) - 1 :
               LET a == t_rows[k]
                   b == t_rows[k + 1]
               IN  \/ a.self_count > b.self_count
                   \/ /\ a.self_count = b.self_count
                      /\ (a.symbol = b.symbol \/ StrLess(a.symbol, b.symbol))
        /\ \A d \in Reorderings(self_counts) :
               LET ranked == FlatTuples(d, total_counts)
               IN  /\ Len(ranked) = Len(t_rows)
                   /\ \A k \in 1..Len(ranked) :
                          /\ ranked[k][1] = t_rows[k].symbol
                          /\ ranked[k][2] = t_rows[k].self_count

\* two symbols with equal self counts were inserted in descending order of name
C15_Witness ==
    /\ BuildReturned
    /\ Len(self_counts) = 2
    /\ self_counts[1][2] = self_counts[2][2]
    /\ StrLess(self_counts[2][1], self_counts[1][1])
    /\ t_rows[1].symbol = self_counts[2][1]

\* the running sum of percent over the first k rows
RECURSIVE PercentSum(_, _)
PercentSum(rows, k) ==
    IF k = 0 THEN FloatOfInt(0) ELSE FloatAdd(PercentSum(rows, k - 1), rows[k].percent)

\* abs(x - y)
FloatDistance(x, y) ==
    LET d == FloatAdd(x, [y EXCEPT !.sign = -y.sign])
    IN  [d EXCEPT !.sign = d.sign * d.sign]

\* 1e-6, the floating-point tolerance of the specification
Tolerance == FloatQuot(1, 1000000)

\* C16: for the rows build_flat returns for an accepted trace, cum_percent is
\* the running sum of percent in rank order, never decreases from a row to the
\* next, and is 100 on the last row, to within 1e-6.
C16_CumPercentRunsTo100 ==
    (BuildReturned /\ FromTrace) =>
        /\ \A k \in 1..Len(t_rows) : t_rows[k].cum_percent = PercentSum(t_rows, k)
        /\ \A k \in 1..Len(t_rows) - 1 :
               FloatLeq(t_rows[k].cum_percent, t_rows[k + 1].cum_percent)
        /\ Len(t_rows) > 0
        /\ FloatLeq(FloatDistance(t_rows[Len(t_rows)].cum_percent, FloatOfInt(100)),
                    Tolerance)

FlatSymbols == {t_rows[k].symbol : k \in 1..Len(t_rows)}

\* C19: build_flat returns one row per key of self_counts and no other row; a
\* symbol that is in the trace only as a non-leaf frame has no row, in the flat
\* table and in a merge of it, and its samples are counted in the total_count
\* of the rows there are.
C19_OneRowPerSelfCountKey ==
    BuildReturned =>
        /\ Len(t_rows) = Len(self_counts)
        /\ FlatSymbols = DictKeys(self_counts)
        /\ \A k \in 1..Len(t_rows) :
               /\ t_rows[k].self_count = DictAt(self_counts, t_rows[k].symbol)
               /\ t_rows[k].total_count = DictGet(total_counts, t_rows[k].symbol, 0)
        /\ FromTrace =>
               /\ FlatSymbols = LeavesOf(consumed.written)
               /\ \A sym \in FramesOf(consumed.written) \ LeavesOf(consumed.written) :
                      /\ sym \notin FlatSymbols
                      /\ sym \notin RowSymbols(
                             combine_inst_cycle(t_rows, t_meta, t_rows, t_meta,
                                                None, None).rows)
               /\ \A k \in 1..Len(t_rows) :
                      t_rows[k].total_count
                          = PerPositionTotal(consumed.written, t_rows[k].symbol)

\* the trace 'a;b 1', 'b;a;b 2': a is a caller only, and is in all 3 samples of b
C19_Witness ==
    /\ BuildReturned /\ FromTrace
    /\ consumed.written = <<Written(<<<<97>>, <<98>>>>, 1),
                            Written(<<<<98>>, <<97>>, <<98>>>>, 2)>>
    /\ DictHas(total_counts, <<97>>)
    /\ Len(t_rows) = 1
    /\ t_rows[1].symbol = <<98>>
    /\ t_rows[1].self_count = 3
    /\ t_rows[1].total_count = 5

\* the trace without its sample lines of count 0
RECURSIVE WithoutZeroCount(_)
WithoutZeroCount(items) ==
    IF items = <<>> THEN <<>>
    ELSE IF IsSampleItem(items[1]) /\ items[1].count = 0
    THEN WithoutZeroCount(Tail(items))
    ELSE <<items[1]>> \o WithoutZeroCount(Tail(items))

\* C21: the sample lines of count 0 contribute nothing: the three results of
\* accumulate, and the flat rows built from them, are those of the trace
\* without these lines.
C21_ZeroCountLineContributesNothing ==
    (BuildReturned /\ FromTrace) =>
        LET without == accumulate(FoldedLines(WithoutZeroCount(consumed.written)))
        IN  /\ SameCounts(Counts(self_counts, total_counts, total_samples), without)
            /\ t_rows = build_flat(without.self_counts, without.total_counts,
                                   without.total_samples, args.clk_mhz).rows

(***************************************************************************)
(* Properties of filter_rows and of the two filters                        *)
(***************************************************************************)
FilterReturned == entry = "filter_rows" /\ pc = "returned"

\* a is b with some elements removed
RECURSIVE IsSubsequence(_, _)
IsSubsequence(a, b) ==
    IF a = <<>> THEN TRUE
    ELSE IF b = <<>> THEN FALSE
    ELSE IF a[1] = b[1] THEN IsSubsequence(Tail(a), Tail(b))
    ELSE IsSubsequence(a, Tail(b))

IsPrefix(a, b) == Len(a) <= Len(b) /\ a = SubSeq(b, 1, Len(a))

\* the positions of the rows whose percent is at least thr
AtOrAbove(rows, thr) == {i \in 1..Len(rows) : FloatLeq(thr, rows[i].percent)}

\* C17: filter_rows only removes rows: the result is the input with some rows
\* removed, the kept rows unchanged and in the same order; with a cap N it has
\* at most N rows and is a prefix of the result without the cap; with a
\* threshold T every kept row has percent >= T, and without a cap every input
\* row with percent >= T is kept.
C17_FilterOnlyRemovesRows ==
    FilterReturned =>
        /\ IsSubsequence(s_rows, t_rows)
        /\ ~IsNone(args.top) =>
               /\ Len(s_rows) <= Max(0, TheValue(args.top))
               /\ IsPrefix(s_rows, filter_rows(t_rows, None, args.thr))
        /\ ~IsNone(args.thr) =>
               /\ \A k \in 1..Len(s_rows) : FloatLeq(TheValue(args.thr), s_rows[k].percent)
               /\ IsNone(args.top) =>
                      Len(s_rows) = Cardinality(AtOrAbove(t_rows, TheValue(args.thr)))
        /\ (IsNone(args.top) /\ IsNone(args.thr)) => s_rows = t_rows

\* a call without a cap, at 57.0, that kept a row above the threshold, removed
\* the row of 57 samples of 100, whose percent is 56.99999999999999, and kept
\* a row after the removed one
C17_Witness ==
    /\ FilterReturned
    /\ IsNone(args.top) /\ args.thr = Some(FloatOfInt(57))
    /\ Len(t_rows) = 3 /\ Len(s_rows) = 2
    /\ t_rows[1].percent = FloatOfInt(100)
    /\ t_rows[2].self_count = 57
    /\ t_rows[2].percent = Percent(57, 100)
    /\ s_rows = <<t_rows[1], t_rows[3]>>

\* the first n elements of a list, none when n is negative
FirstN(seq, n) == [i \in 1..(IF n < 0 THEN 0 ELSE IF n < Len(seq) THEN n ELSE Len(seq)) |-> seq[i]]

\* the rows at the given positions, in order
RECURSIVE RowsAt(_, _, _)
RowsAt(rows, S, from) ==
    IF from > Len(rows) THEN <<>>
    ELSE (IF from \in S THEN <<rows[from]>> ELSE <<>>) \o RowsAt(rows, S, from + 1)

AtOrAboveCycle(rows, thr) == {i \in 1..Len(rows) : FloatLeq(thr, rows[i].cycle_percent)}

\* the merged table before any filter
FullMerge == combine_inst_cycle(t_rows, t_meta, s_rows, s_meta, None, None).rows

\* C18: in filter_rows and in combine_inst_cycle the threshold is applied
\* before the cap: the result is the first N rows of the rows at or above the
\* threshold, and a negative N gives the empty result.
C18_ThresholdBeforeCap ==
    /\ FilterReturned =>
           LET above == IF IsNone(args.thr) THEN t_rows
                        ELSE RowsAt(t_rows, AtOrAbove(t_rows, TheValue(args.thr)), 1)
           IN  s_rows = IF IsNone(args.top) THEN above
                        ELSE FirstN(above, TheValue(args.top))
    /\ (entry = "combine_inst_cycle" /\ pc = "returned") =>
           LET above == IF IsNone(args.thr_cycle) THEN FullMerge
                        ELSE RowsAt(FullMerge,
                                    AtOrAboveCycle(FullMerge, TheValue(args.thr_cycle)), 1)
           IN  combined = IF IsNone(args.top) THEN above
                          ELSE FirstN(above, TheValue(args.top))

\* a call of filter_rows with cap 1 whose first input row is below the
\* threshold: the kept row is the second input row, and the threshold filter
\* of the first row alone is empty
C18_Witness ==
    /\ FilterReturned
    /\ args.top = Some(1) /\ args.thr = Some(FloatOfInt(57))
    /\ Len(t_rows) >= 2
    /\ t_rows[1].percent = FloatOfInt(50)
    /\ t_rows[2].percent = FloatOfInt(100)
    /\ s_rows = <<t_rows[2]>>

\* filter_rows has returned s_rows for the rows t_rows that build_flat ranked
RankedAndFiltered == FilterReturned /\ calls # <<>>

\* C22: the rows filter_rows keeps of the ranked output of build_flat are a
\* prefix of the ranked list, their cum_percent never decreases, and the
\* cum_percent of the last kept row is the sum of percent over the kept rows.
C22_FilteredRowsKeepCumPercent ==
    RankedAndFiltered =>
        /\ IsPrefix(s_rows, t_rows)
        /\ \A k \in 1..Len(s_rows) - 1 :
               FloatLeq(s_rows[k].cum_percent, s_rows[k + 1].cum_percent)
        /\ Len(s_rows) > 0 =>
               s_rows[Len(s_rows)].cum_percent = PercentSum(s_rows, Len(s_rows))

(***************************************************************************)
(* Properties of a run of main                                             *)
(***************************************************************************)
\* isfile was called on the path before the i-th call of the run
CheckedBefore(path, i) ==
    \E j \in 1..(i - 1) : calls[j].fn = "isfile" /\ calls[j].with = path

\* C13: in a run of main no trace is parsed before the existence of every
\* trace path on the command line has been checked.
C13_PathsCheckedBeforeParsing ==
    entry = "main" =>
        \A i \in 1..Len(calls) :
            calls[i].fn = "accumulate" =>
                /\ CheckedBefore("trace", i)
                /\ args.second # "none" => CheckedBefore("second_trace", i)

\* the run has ended in a core error: a missing trace, or the ValueError of a
\* malformed line or of a total that is not positive
CoreError ==
    /\ entry = "main"
    /\ \/ pc = "returned2"
       \/ /\ pc = "raised"
          /\ output[Len(output)].meta.kind = "ValueError"

\* what was printed on stdout or written to a file so far
Reports == {i \in 1..Len(output) : output[i].stream \in {"stdout", "csv", "png"}}

IsMalformed(raw) == parse_folded_line(raw).kind = "ValueError"

\* sum of the counts of the lines that parse as samples
RECURSIVE LineCountSum(_)
LineCountSum(ls) ==
    IF ls = <<>> THEN 0
    ELSE (IF parse_folded_line(ls[1]).kind = "sample"
          THEN parse_folded_line(ls[1]).count ELSE 0) + LineCountSum(Tail(ls))

\* C14: a run of main that ends in a core error has produced no report, and
\* accumulate returns to main only counts of all the lines of a trace: a
\* malformed line anywhere in it ends the run.
C14_NoReportOnCoreError ==
    entry = "main" =>
        /\ CoreError => Reports = {}
        /\ Reports # {} =>
               /\ t_acc.total_samples > 0
               /\ args.second = "file" => s_acc.total_samples > 0
        /\ pc = "build1" =>
               /\ \A i \in 1..Len(lines) : ~IsMalformed(lines[i])
               /\ t_acc.total_samples = LineCountSum(lines)
        /\ pc = "build2" =>
               /\ \A i \in 1..Len(lines) : ~IsMalformed(lines[i])
               /\ s_acc.total_samples = LineCountSum(lines)
        /\ (pc = "raised" /\ calls[Len(calls)].fn = "accumulate") =>
               /\ \E i \in 1..Len(lines) : IsMalformed(lines[i])
               /\ output[Len(output)].meta.kind = "ValueError"

\* the second trace has a sample line and then a malformed line: the run has
\* ended with the traceback alone, after the first trace was read and ranked
C14_Witness ==
    /\ CoreError /\ pc = "raised"
    /\ calls[Len(calls)].fn = "accumulate"
    /\ calls[Len(calls)].with = "second_trace"
    /\ Len(lines) = 2
    /\ parse_folded_line(lines[1]).kind = "sample"
    /\ IsMalformed(lines[2])
    /\ Len(t_rows) > 0
    /\ Len(output) = 1
    /\ Reports = {}

(***************************************************************************)
(* Properties of parse_folded_line                                         *)
(***************************************************************************)
\* C9: every sample parse_folded_line returns has at least one frame, no empty
\* frame name and a count >= 0.
C9_ParsedSampleIsWellFormed ==
    (entry = "parse_folded_line" /\ pc = "returned" /\ parsed.kind = "sample") =>
        /\ Len(parsed.frames) > 0
        /\ \A i \in 1..Len(parsed.frames) : parsed.frames[i] # <<>>
        /\ parsed.count >= 0

\* the line read without the parser: where its ink starts and ends
AllSpace(s) == \A i \in 1..Len(s) : IsSpace(s[i])

FirstInk(s) ==
    CHOOSE i \in 1..Len(s) : ~IsSpace(s[i]) /\ \A j \in 1..(i - 1) : IsSpace(s[j])

LastInk(s) ==
    CHOOSE i \in 1..Len(s) : ~IsSpace(s[i]) /\ \A j \in (i + 1)..Len(s) : IsSpace(s[j])

\* where the text after the last run of whitespace starts
CountStart(s) ==
    LET last == LastInk(s)
    IN  CHOOSE b \in 1..last :
            /\ b = 1 \/ IsSpace(s[b - 1])
            /\ \A k \in b..last : ~IsSpace(s[k])

CountText(s) == SubSeq(s, CountStart(s), LastInk(s))

HasSplitPoint(s) == CountStart(s) > FirstInk(s)

\* the text before the last run of whitespace
StackText(s) ==
    LET start == CountStart(s)
    IN  SubSeq(s, FirstInk(s),
               CHOOSE e \in 1..(start - 1) :
                   ~IsSpace(s[e]) /\ \A j \in (e + 1)..(start - 1) : IsSpace(s[j]))

\* the non-empty runs between the semicolons of t, in order (";" is 59)
RunStarts(t) == {b \in 1..Len(t) : t[b] # 59 /\ (b = 1 \/ t[b - 1] = 59)}

RunEnd(t, b) ==
    CHOOSE e \in b..Len(t) :
        /\ \A k \in b..e : t[k] # 59
        /\ (e = Len(t) \/ t[e + 1] = 59)

FrameRuns(t) ==
    [i \in 1..Cardinality(RunStarts(t)) |->
        LET b == CHOOSE c \in RunStarts(t) :
                     Cardinality({d \in RunStarts(t) : d < c}) = i - 1
        IN  SubSeq(t, b, RunEnd(t, b))]

\* an integer written in base 10: an optional sign ("+" is 43, "-" is 45) and
\* one decimal digit or more
IsInteger(tok) ==
    \E k \in {0, 1} :
        /\ Len(tok) > k
        /\ k = 1 => tok[1] \in {43, 45}
        /\ \A i \in (k + 1)..Len(tok) : IsDigit(tok[i])

RECURSIVE Pow10(_)
Pow10(n) == IF n = 0 THEN 1 ELSE 10 * Pow10(n - 1)

RECURSIVE PlaceSum(_, _)
PlaceSum(tok, i) ==
    IF i > Len(tok) THEN 0
    ELSE (IF IsDigit(tok[i]) THEN DigitVal(tok[i]) * Pow10(Len(tok) - i) ELSE 0)
             + PlaceSum(tok, i + 1)

IntegerValue(tok) == IF tok[1] = 45 THEN -PlaceSum(tok, 1) ELSE PlaceSum(tok, 1)

\* C10: every line has exactly one outcome: None exactly for a line that is
\* empty after trimming; an error carrying the raw line when there is no
\* whitespace split point, when the text after the last whitespace run is not
\* an integer, or when no non-empty frame remains; otherwise the non-empty
\* frames in order with the integer count.
C10_EveryLineHasOneOutcome ==
    (entry = "parse_folded_line" /\ pc # "call") =>
        IF AllSpace(line)
        THEN pc = "returned" /\ parsed.kind = "None"
        ELSE IF \/ ~HasSplitPoint(line)
                \/ ~IsInteger(CountText(line))
                \/ FrameRuns(StackText(line)) = <<>>
        THEN pc = "raised" /\ parsed.kind = "ValueError" /\ parsed.line = line
        ELSE /\ pc = "returned"
             /\ parsed = Sample(FrameRuns(StackText(line)), IntegerValue(CountText(line)))

=============================================================================
